---------------------------- MODULE Spec2Model ----------------------------
(***************************************************************************)
(* A model of pgimportdoc (src/pgimportdoc.c): main() parses the options   *)
(* into struct _param and calls pgimportdoc(), which connects (with the    *)
(* password retry loop), optionally sets the client encoding, reads the    *)
(* input into a PQExpBuffer, binds it as the single parameter of the       *)
(* user's command, executes the command and reports the result.            *)
(*                                                                         *)
(* The server, the terminal, the file system and the allocator are the     *)
(* environment: every answer they can give is a nondeterministic choice.   *)
(* param.verbose, pg_user, pg_host and pg_port only select progress        *)
(* messages and connection keywords; they are left out of the state.       *)
(* `log` is a history variable: the sequence of externally visible events  *)
(* (library calls and lines written to stdout/stderr) of the process.      *)
(***************************************************************************)
EXTENDS Integers, Sequences, FiniteSets, TLC

VARIABLES
    pc,             \* position of the process in main() / pgimportdoc()
    param,          \* struct _param (the fields that steer the pipeline)
    optsLeft,       \* options of argv that getopt() has not returned yet
    pg10,           \* build variant: PG_VERSION_NUM >= 100000
    have_password,  \* static bool have_password
    password,       \* password buffer / pointer ("NULL" when none)
    new_pass,       \* bool new_pass
    conn,           \* PGconn *conn: 0 is NULL, else an index into conns
    conns,          \* every connection object PQconnectdbParams returned
    encStatus,      \* status of the SET client_encoding result, or "none"
    stream,         \* FILE *input and the bytes it delivers
    fst,            \* struct stat fst as filled by fstat()
    data,           \* PQExpBufferData data
    call,           \* the arguments of the PQexecParams call (nParams 0: none yet)
    result,         \* PGresult *result of the main command (status "none": NULL)
    rc,             \* int rc of main(): what pgimportdoc() returned
    exitCode,       \* exit status of the process once pc = "exited"
    reuse,          \* history: earlier calls of pgimportdoc() in this process
    log             \* history: events in the order they happened

vars == <<pc, param, optsLeft, pg10, have_password, password, new_pass, conn,
          conns, encStatus, stream, fst, data, call, result, rc, exitCode,
          reuse, log>>

----------------------------------------------------------------------------
(* Program constants *)

BUFSIZE == 1024

\* ((int64) 1024) * 1024 * 1024
MaxFileSize == 1024 * 1024 * 1024

(* Bounds of the model *)

\* the command line holds at most this many options
MaxOpts == 3
\* every byte sequence up to this length is an input
MaxLen == 2
\* a failing fread() delivers at most this many bytes before the error
MaxPartial == 1
\* at most this many fread() calls of one run fail
MaxReadErrors == 1
\* the main command returns at most this many rows / columns
MaxTuples == 2
MaxFields == 2
\* pgimportdoc() is called again at most this many times in one process
MaxReuse == 1

----------------------------------------------------------------------------
(* Helpers over sequences *)

Min(a, b) == IF a < b THEN a ELSE b

Count(s, e) == Cardinality({i \in DOMAIN s : s[i] = e})

Has(s, e) == \E i \in DOMAIN s : s[i] = e

\* every occurrence of a comes before every occurrence of b
Before(s, a, b) == \A i, j \in DOMAIN s : (s[i] = a /\ s[j] = b) => i < j

Emit(events) == log' = log \o events

----------------------------------------------------------------------------
(* enum trivalue, enum format, ExecStatusType *)

TriValues == {"TRI_DEFAULT", "TRI_NO", "TRI_YES"}
Formats == {"FORMAT_XML", "FORMAT_TEXT", "FORMAT_BYTEA"}
ExecStatuses == {"PGRES_COMMAND_OK", "PGRES_TUPLES_OK", "PGRES_EMPTY_QUERY",
                 "PGRES_FATAL_ERROR"}

\* what the user may type at the prompt
Passwords == {"pw1", "pw2"}

\* byte values an input is made of (0 is the C string terminator)
ByteVals == {0, 65}

\* Options of the getopt() string "E:h:f:U:p:c:t:vwW" that change the modelled
\* state, with the argument classes the switch distinguishes; "?" is an
\* unknown option.
Options == {"c", "f-", "fNAME", "tXML", "tTEXT", "tBYTEA", "tOTHER", "E",
            "w", "W", "pVALID", "pINVALID", "?"}

----------------------------------------------------------------------------
(* main(): defaults, getopt loop, argument checks *)

DefaultParam ==
    [pg_prompt |-> "TRI_DEFAULT", fmt |-> "FORMAT_TEXT", use_stdin |-> TRUE,
     command |-> FALSE, encoding |-> FALSE]

Init ==
    /\ pc = "start"
    /\ param = DefaultParam
    /\ optsLeft \in 0..MaxOpts
    /\ pg10 \in BOOLEAN
    /\ have_password = FALSE
    /\ password = "NULL"
    /\ new_pass = FALSE
    /\ conn = 0
    /\ conns = <<>>
    /\ encStatus = "none"
    /\ stream = [open |-> "none", content |-> <<>>, pos |-> 0, ferr |-> FALSE,
                 errors |-> 0, closed |-> 0]
    /\ fst = [set |-> FALSE, ok |-> FALSE, isreg |-> FALSE, size |-> 0]
    /\ data = [state |-> "uninit", bytes |-> <<>>]
    /\ call = [nParams |-> 0, ptypes |-> <<>>, plengths |-> <<>>,
               pformats |-> <<>>, pvalues |-> <<>>]
    /\ result = [status |-> "none", ntuples |-> 0, nfields |-> 0,
                 cell |-> "absent"]
    /\ rc = 0
    /\ exitCode = 0
    /\ reuse = [again |-> 0, hadPassword |-> FALSE, cached |-> "NULL"]
    /\ log = <<>>

\* an error report that is not followed by exit(): main goes on to the call
ExitMissing(code, events) ==
    /\ pc' = "entry"
    /\ exitCode' = exitCode
    /\ Emit(events)

\* exit(code) inside main
Exit(code, events) ==
    /\ pc' = "exited"
    /\ exitCode' = code
    /\ Emit(events)

\* if (argc > 1) { argv[1] is --help or -?: usage(), exit(0);
\*                 argv[1] is --version or -V: puts(version), exit(0) }
HelpOrVersion(what) ==
    /\ pc = "start"
    /\ Exit(0, <<what>>)
    /\ UNCHANGED <<reuse, param, optsLeft, pg10, have_password, password, new_pass,
                   conn, conns, encStatus, stream, fst, data, call, result, rc>>

\* argv[1] is none of these: on to the getopt loop
BeginOptions ==
    /\ pc = "start"
    /\ pc' = "getopt"
    /\ UNCHANGED <<reuse, param, optsLeft, pg10, have_password, password, new_pass,
                   conn, conns, encStatus, stream, fst, data, call, result, rc,
                   exitCode, log>>

\* the effect of one case of the switch on param
ApplyOption(p, o) ==
    CASE o = "c"      -> [p EXCEPT !.command = TRUE]
      [] o = "fNAME"  -> [p EXCEPT !.use_stdin = FALSE]
      [] o = "tXML"   -> [p EXCEPT !.fmt = "FORMAT_XML"]
      [] o = "tTEXT"  -> [p EXCEPT !.fmt = "FORMAT_TEXT"]
      [] o = "tBYTEA" -> [p EXCEPT !.fmt = "FORMAT_BYTEA"]
      [] o = "E"      -> [p EXCEPT !.encoding = TRUE]
      [] o = "w"      -> [p EXCEPT !.pg_prompt = "TRI_NO"]
      [] o = "W"      -> [p EXCEPT !.pg_prompt = "TRI_YES"]
      [] OTHER        -> p

\* one iteration of while (1) { c = getopt(...); switch (c) ... }
GetoptCase(o) ==
    /\ pc = "getopt"
    /\ optsLeft > 0
    /\ optsLeft' = optsLeft - 1
    /\ UNCHANGED <<reuse, pg10, have_password, password, new_pass, conn,
                   conns, encStatus, stream, fst, data, call, result, rc>>
    /\ CASE o = "?" ->
              /\ Exit(1, <<"err_usage_hint">>)
              /\ UNCHANGED param
         [] o = "tOTHER" ->
              /\ Exit(1, <<"err_bad_type">>)
              /\ UNCHANGED param
         [] o = "pINVALID" ->
              /\ Exit(1, <<"err_bad_port">>)
              /\ UNCHANGED param
         [] OTHER ->
              /\ param' = ApplyOption(param, o)
              /\ UNCHANGED <<pc, exitCode, log>>

\* getopt() returned -1: the checks after the loop, up to the call
CheckArgs(dbGiven) ==
    /\ pc = "getopt"
    /\ optsLeft = 0
    /\ UNCHANGED <<reuse, param, optsLeft, pg10, have_password, password, new_pass,
                   conn, conns, encStatus, stream, fst, data, call, result, rc>>
    /\ IF ~param.command
       THEN Exit(1, <<"err_missing_command", "err_usage_hint">>)
       ELSE IF ~dbGiven
       THEN Exit(1, <<"err_missing_database", "err_usage_hint">>)
       ELSE /\ pc' = "entry"
            /\ Emit(IF param.encoding /\ param.fmt # "FORMAT_TEXT"
                    THEN <<"warn_encoding">> ELSE <<>>)
            /\ UNCHANGED exitCode

\* main ending with return 0 whatever pgimportdoc() returned
MainReturnZero ==
    /\ pc = "returned"
    /\ pc' = "exited"
    /\ exitCode' = 0
    /\ UNCHANGED <<reuse, param, optsLeft, pg10, have_password, password, new_pass,
                   conn, conns, encStatus, stream, fst, data, call, result, rc,
                   log>>

\* return rc; the exit status of a process is the low 8 bits
MainReturn ==
    /\ pc = "returned"
    /\ pc' = "exited"
    /\ exitCode' = rc % 256
    /\ UNCHANGED <<reuse, param, optsLeft, pg10, have_password, password, new_pass,
                   conn, conns, encStatus, stream, fst, data, call, result, rc,
                   log>>

----------------------------------------------------------------------------
(* pgimportdoc(): the Connector *)

mainVars == <<param, optsLeft, pg10, exitCode, reuse>>
inputVars == <<stream, fst, data>>
execVars == <<call, result>>

\* PQfinish(c) on the connection objects cs
PQfinish(cs, c) == [cs EXCEPT ![c].finished = @ + 1]

\* a command sent on connection c (PQexec, PQexecParams)
PQsend(cs, c) ==
    [cs EXCEPT ![c].commands = @ + 1,
               ![c].late = IF cs[c].finished > 0 THEN @ + 1 ELSE @]

\* PQstatus(conn) == CONNECTION_BAD
ConnectionBad(c) == conns[c].status = "CONNECTION_BAD"

\* return v from pgimportdoc()
Return(v, events) ==
    /\ pc' = "returned"
    /\ rc' = v
    /\ Emit(events \o <<"return">>)

\* the forced prompt without have_password = true after it
ForcedPromptNoFlag ==
    /\ pc = "entry"
    /\ pc' = "connect"
    /\ IF param.pg_prompt = "TRI_YES" /\ ~have_password
       THEN /\ \E pw \in Passwords : password' = pw
            /\ Emit(<<"prompt">>)
       ELSE UNCHANGED <<password, log>>
    /\ UNCHANGED <<mainVars, have_password, new_pass, conn, conns, encStatus,
                   inputVars, execVars, rc>>

\* simple_prompt("Password: ", ...): the user types any password
\* if (param->pg_prompt == TRI_YES && !have_password) { prompt }
ForcedPrompt ==
    /\ pc = "entry"
    /\ pc' = "connect"
    /\ IF param.pg_prompt = "TRI_YES" /\ ~have_password
       THEN /\ \E pw \in Passwords : password' = pw
            /\ have_password' = TRUE
            /\ Emit(<<"prompt">>)
       ELSE UNCHANGED <<password, have_password, log>>
    /\ UNCHANGED <<mainVars, new_pass, conn, conns, encStatus, inputVars,
                   execVars, rc>>

\* values[3] = have_password ? password : NULL
PasswordValue == IF have_password THEN password ELSE "NULL"

\* the connection objects the library can hand back for one attempt
ConnectOutcomes ==
    {[status |-> "CONNECTION_OK", needsPassword |-> FALSE]}
    \cup [status : {"CONNECTION_BAD"}, needsPassword : BOOLEAN]

\* body of the do-loop up to the check of the new connection
\* conn = PQconnectdbParams(keywords, values, true); if (!conn) return -1
Connect ==
    /\ pc = "connect"
    /\ new_pass' = FALSE
    /\ \/ /\ conn' = 0
          /\ Return(-1, <<"connect", "err_connection_failed">>)
          /\ UNCHANGED conns
       \/ \E o \in ConnectOutcomes :
             /\ conns' = Append(conns, [status |-> o.status,
                                        needsPassword |-> o.needsPassword,
                                        password |-> PasswordValue,
                                        finished |-> 0, commands |-> 0,
                                        late |-> 0])
             /\ conn' = Len(conns) + 1
             /\ pc' = "check_password"
             /\ Emit(<<"connect">>)
             /\ UNCHANGED rc
    /\ UNCHANGED <<mainVars, have_password, password, encStatus, inputVars,
                   execVars>>

\* the retry condition without the test of have_password
RetryWithoutPasswordTest ==
    /\ ConnectionBad(conn)
    /\ conns[conn].needsPassword
    /\ param.pg_prompt # "TRI_NO"

\* the retry condition without the test of the prompt policy
RetryWithoutPolicyTest ==
    /\ ConnectionBad(conn)
    /\ conns[conn].needsPassword
    /\ ~have_password

\* the condition of the retry: the server wants a password, none was given
\* yet and prompting is allowed
RetryWithPassword ==
    /\ ConnectionBad(conn)
    /\ conns[conn].needsPassword
    /\ ~have_password
    /\ param.pg_prompt # "TRI_NO"

\* the rest of the loop body and } while (new_pass)
CheckPassword ==
    /\ pc = "check_password"
    /\ IF RetryWithPassword
       THEN /\ conns' = PQfinish(conns, conn)
            /\ \E pw \in Passwords : password' = pw
            /\ have_password' = TRUE
            /\ new_pass' = TRUE
            /\ pc' = "connect"
            /\ Emit(<<"PQfinish", "prompt">>)
       ELSE /\ pc' = "check_connection"
            /\ UNCHANGED <<conns, password, have_password, new_pass, log>>
    /\ UNCHANGED <<mainVars, conn, encStatus, inputVars, execVars, rc>>

\* the check of the connection, returning without PQfinish(conn)
CheckConnectionLeak ==
    /\ pc = "check_connection"
    /\ IF ConnectionBad(conn)
       THEN Return(-1, <<"err_connection_failed">>)
       ELSE /\ pc' = "encoding"
            /\ UNCHANGED <<rc, log>>
    /\ UNCHANGED <<mainVars, have_password, password, new_pass, conn, conns,
                   encStatus, inputVars, execVars>>

\* if (PQstatus(conn) == CONNECTION_BAD) { report; PQfinish; return -1 }
CheckConnection ==
    /\ pc = "check_connection"
    /\ IF ConnectionBad(conn)
       THEN /\ conns' = PQfinish(conns, conn)
            /\ Return(-1, <<"err_connection_failed", "PQfinish">>)
       ELSE /\ pc' = "encoding"
            /\ UNCHANGED <<conns, rc, log>>
    /\ UNCHANGED <<mainVars, have_password, password, new_pass, conn,
                   encStatus, inputVars, execVars>>

----------------------------------------------------------------------------
(* pgimportdoc(): the Encoding Setter *)

\* the test of the SET result taking only a fatal error as a rejection
EncodingRejectedFatalOnly(status) == status = "PGRES_FATAL_ERROR"

\* if (status != PGRES_COMMAND_OK)
EncodingRejected(status) == status # "PGRES_COMMAND_OK"

\* if (param->encoding) { PQexec(conn, "SET client_encoding TO ...") ... }
SetEncoding ==
    /\ pc = "encoding"
    /\ IF param.encoding
       THEN \E status \in ExecStatuses :
               /\ encStatus' = status
               /\ IF EncodingRejected(status)
                  THEN /\ conns' = PQfinish(PQsend(conns, conn), conn)
                       /\ Return(-1, <<"set_encoding", "err_status",
                                       "err_message", "PQfinish">>)
                  ELSE /\ conns' = PQsend(conns, conn)
                       /\ pc' = "open"
                       /\ Emit(<<"set_encoding">>)
                       /\ UNCHANGED rc
       ELSE /\ pc' = "open"
            /\ UNCHANGED <<conns, encStatus, rc, log>>
    /\ UNCHANGED <<mainVars, have_password, password, new_pass, conn,
                   inputVars, execVars>>

----------------------------------------------------------------------------
(* pgimportdoc(): the Input Loader *)

\* every byte sequence of length 0..n over ByteVals
SeqsUpTo(n) == UNION {[1..k -> ByteVals] : k \in 0..n}

\* a recognisable byte sequence of the given length (no two neighbouring
\* chunks look alike, and it holds zero bytes)
Pattern(len) == [i \in 1..len |-> i % 251]

\* input lengths around the chunk size
ChunkLens == {BUFSIZE - 1, BUFSIZE, BUFSIZE + 1, 2 * BUFSIZE, 2 * BUFSIZE + 1}

\* the byte sequences a file or standard input may deliver
Inputs == SeqsUpTo(MaxLen) \cup {Pattern(n) : n \in ChunkLens}

OpenStream(kind, bytes) ==
    [open |-> kind, content |-> bytes, pos |-> 0, ferr |-> FALSE,
     errors |-> 0, closed |-> 0]

\* if (param->use_stdin) input = stdin; else { input = fopen(...); ... }
OpenInput ==
    /\ pc = "open"
    /\ IF param.use_stdin
       THEN /\ \E bytes \in Inputs : stream' = OpenStream("stdin", bytes)
            /\ pc' = "init_buffer"
            /\ UNCHANGED <<conns, rc, log>>
       ELSE \/ /\ conns' = PQfinish(conns, conn)
               /\ Return(-1, <<"fopen", "err_open", "PQfinish">>)
               /\ UNCHANGED stream
            \/ /\ \E bytes \in Inputs : stream' = OpenStream("file", bytes)
               /\ pc' = "fstat"
               /\ Emit(<<"fopen">>)
               /\ UNCHANGED <<conns, rc>>
    /\ UNCHANGED <<mainVars, have_password, password, new_pass, conn,
                   encStatus, fst, data, execVars>>

\* st_size values fstat() may report for the open file: the length of what
\* it holds; a file of about the size limit is stood for by the longest
\* input (the code never compares st_size with what it reads); a file that
\* is not regular (a FIFO, a device) reports no meaningful size
StatSizes(reg, bytes) ==
    IF ~reg THEN {0, MaxFileSize + 1}
    ELSE IF Len(bytes) = 2 * BUFSIZE + 1
    THEN {Len(bytes), MaxFileSize - 1, MaxFileSize, MaxFileSize + 1}
    ELSE {Len(bytes)}

\* the size test with >= in place of >
TooBigInclusive(st) == st.isreg /\ st.size >= MaxFileSize

\* S_ISREG(fst.st_mode) && fst.st_size > ((int64) 1024) * 1024 * 1024
TooBig(st) == st.isreg /\ st.size > MaxFileSize

\* if (fstat(fileno(input), &fst) != -1) { size check } else { error }
Fstat ==
    /\ pc = "fstat"
    /\ \/ /\ fst' = [set |-> TRUE, ok |-> FALSE, isreg |-> FALSE, size |-> 0]
          /\ conns' = PQfinish(conns, conn)
          /\ Return(-1, <<"fstat", "err_fstat", "PQfinish">>)
       \/ \E reg \in BOOLEAN : \E sz \in StatSizes(reg, stream.content) :
             LET st == [set |-> TRUE, ok |-> TRUE, isreg |-> reg, size |-> sz] IN
             /\ fst' = st
             /\ IF TooBig(st)
                THEN /\ conns' = PQfinish(conns, conn)
                     /\ Return(-1, <<"fstat", "err_too_big", "PQfinish">>)
                ELSE /\ pc' = "init_buffer"
                     /\ Emit(<<"fstat">>)
                     /\ UNCHANGED <<conns, rc>>
    /\ UNCHANGED <<mainVars, have_password, password, new_pass, conn,
                   encStatus, stream, data, execVars>>

\* initPQExpBuffer(&data): the first allocation may fail (broken buffer)
InitBuffer ==
    /\ pc = "init_buffer"
    /\ \E ok \in BOOLEAN :
          data' = [state |-> IF ok THEN "live" ELSE "broken", bytes |-> <<>>]
    /\ pc' = "read"
    /\ UNCHANGED <<mainVars, have_password, password, new_pass, conn, conns,
                   encStatus, stream, fst, execVars, rc, log>>

\* the bytes fread(buffer, 1, sizeof(buffer), input) delivers when nothing
\* fails: the next chunk, of at most BUFSIZE bytes
NextChunk(st) ==
    SubSeq(st.content, st.pos + 1, Min(st.pos + BUFSIZE, Len(st.content)))

\* appendBinaryPQExpBuffer(&d, chunk, size): a broken buffer stays broken
\* and empty; growing may fail, which breaks the buffer
AppendBinary(d, chunk, grown) ==
    IF d.state = "broken" THEN d
    ELSE IF ~grown THEN [state |-> "broken", bytes |-> <<>>]
    ELSE [d EXCEPT !.bytes = @ \o chunk]

\* the loop condition of a reader that stops at the first short chunk
LoopContinuesFullOnly(size) == size >= BUFSIZE

\* the condition of while ((size = fread(...)) > 0)
LoopContinues(size) == size > 0

\* one evaluation of the loop condition and, when it holds, the loop body.
\* A failing fread() sets the (sticky) error indicator and delivers fewer
\* bytes than a full buffer.
Fread ==
    /\ pc = "read"
    /\ \E failed \in BOOLEAN, grown \in BOOLEAN :
         \E chunk \in (IF failed
                       THEN {SubSeq(NextChunk(stream), 1, k) :
                               k \in 0..Min(MaxPartial,
                                            Min(Len(NextChunk(stream)),
                                                BUFSIZE - 1))}
                       ELSE {NextChunk(stream)}) :
            /\ failed => stream.errors < MaxReadErrors
            /\ stream' = [stream EXCEPT
                            !.pos = @ + Len(chunk),
                            !.ferr = @ \/ failed,
                            !.errors = IF failed THEN @ + 1 ELSE @]
            /\ IF LoopContinues(Len(chunk))
               THEN /\ data' = AppendBinary(data, chunk, grown)
                    /\ UNCHANGED pc
               ELSE /\ grown
                    /\ pc' = "check_read"
                    /\ UNCHANGED data
            /\ Emit(<<"fread">>)
    /\ UNCHANGED <<mainVars, have_password, password, new_pass, conn, conns,
                   encStatus, fst, execVars, rc>>

\* an error test that never finds the buffer broken
BufferBrokenNever(d) == FALSE

\* PQExpBufferDataBroken(data)
BufferBroken(d) == d.state = "broken"

\* an error test that never sees the error indicator
ReadFailedNever(st) == FALSE

\* ferror(input)
ReadFailed(st) == st.ferr

\* if (ferror(input)) ... else if (PQExpBufferDataBroken(data)) ...
\* fclose(input);
CheckRead ==
    /\ pc = "check_read"
    /\ IF ReadFailed(stream)
       THEN /\ conns' = PQfinish(conns, conn)
            /\ Return(-1, <<"err_read", "PQfinish">>)
            /\ UNCHANGED stream
       ELSE IF BufferBroken(data)
       THEN /\ conns' = PQfinish(conns, conn)
            /\ Return(-1, <<"err_out_of_memory", "PQfinish">>)
            /\ UNCHANGED stream
       ELSE /\ stream' = [stream EXCEPT !.closed = @ + 1]
            /\ pc' = "exec"
            /\ Emit(<<"fclose">>)
            /\ UNCHANGED <<conns, rc>>
    /\ UNCHANGED <<mainVars, have_password, password, new_pass, conn,
                   encStatus, fst, data, execVars>>

----------------------------------------------------------------------------
(* pgimportdoc(): the Parameter Binder and the Executor/Reporter *)

\* the binder with the two type tags exchanged
BoundParameterSwapped(fmt, d) ==
    IF fmt = "FORMAT_XML" \/ fmt = "FORMAT_BYTEA"
    THEN [nParams |-> 1,
          ptypes |-> <<IF fmt = "FORMAT_XML" THEN "BYTEAOID" ELSE "XMLOID">>,
          plengths |-> <<Len(d.bytes)>>,
          pformats |-> <<1>>,
          pvalues |-> <<d.bytes>>]
    ELSE [nParams |-> 1, ptypes |-> <<>>, plengths |-> <<>>,
          pformats |-> <<>>, pvalues |-> <<d.bytes>>]

\* the binder passing a TEXT document like a binary one, with its length
BoundParameterTextBinary(fmt, d) ==
    [nParams |-> 1,
     ptypes |-> IF fmt = "FORMAT_TEXT" THEN <<>>
                ELSE <<IF fmt = "FORMAT_XML" THEN "XMLOID" ELSE "BYTEAOID">>,
     plengths |-> <<Len(d.bytes)>>,
     pformats |-> <<1>>,
     pvalues |-> <<d.bytes>>]

\* the arguments of PQexecParams(conn, command, nParams, ptypes, pvalues,
\* plengths, pformats, 0) for the format: an array argument is the sequence
\* of its first nParams elements, <<>> is a NULL array argument; format 1 is
\* the binary wire format; pvalues[0] is the buffer it points to
BoundParameter(fmt, d) ==
    IF fmt = "FORMAT_XML" \/ fmt = "FORMAT_BYTEA"
    THEN [nParams |-> 1,
          ptypes |-> <<IF fmt = "FORMAT_XML" THEN "XMLOID" ELSE "BYTEAOID">>,
          plengths |-> <<Len(d.bytes)>>,
          pformats |-> <<1>>,
          pvalues |-> <<d.bytes>>]
    ELSE [nParams |-> 1, ptypes |-> <<>>, plengths |-> <<>>,
          pformats |-> <<>>, pvalues |-> <<d.bytes>>]

\* the C string a buffer holds: the bytes before its first zero byte (the
\* expandable buffer keeps a zero byte behind its last byte)
UpToZero(bytes) ==
    LET zeros == {i \in 1..Len(bytes) : bytes[i] = 0}
    IN  IF zeros = {} THEN bytes
        ELSE SubSeq(bytes, 1, (CHOOSE i \in zeros : \A j \in zeros : i <= j) - 1)

\* the value PQexecParams sends for the first parameter of call c: with a
\* NULL format array, or format 0, the parameter is a text string and its
\* length is ignored; with format 1 it is the declared number of bytes
PQexecParamsValue(c) ==
    IF c.pformats # <<>> /\ c.pformats[1] = 1
    THEN SubSeq(c.pvalues[1], 1, c.plengths[1])
    ELSE UpToZero(c.pvalues[1])

\* what row 0, column 0 of a result holds
CellKinds(r, c) == IF r > 0 /\ c > 0 THEN {"null", "text"} ELSE {"absent"}

\* the results the server (or a failing library call) can produce
Results ==
    {[status |-> s, ntuples |-> 0, nfields |-> 0, cell |-> "absent"] :
        s \in ExecStatuses \ {"PGRES_TUPLES_OK"}}
    \cup UNION {{[status |-> "PGRES_TUPLES_OK", ntuples |-> r, nfields |-> c,
                  cell |-> k] : k \in CellKinds(r, c)} :
                r \in 0..MaxTuples, c \in 0..MaxFields}

\* PQgetisnull(result, 0, 0): an out-of-range cell counts as null
PQgetisnull(res) == res.cell # "text"

\* if (fmt == XML || fmt == BYTEA) {...} else if (fmt == TEXT) {...}
ExecParams ==
    /\ pc = "exec"
    /\ call' = BoundParameter(param.fmt, data)
    /\ conns' = PQsend(conns, conn)
    /\ \E res \in Results : result' = res
    /\ pc' = "check_status"
    /\ Emit(<<"exec">>)
    /\ UNCHANGED <<mainVars, have_password, password, new_pass, conn,
                   encStatus, inputVars, rc>>

\* the status test taking only a fatal error as a failure
StatusFailedFatalOnly(status) == status = "PGRES_FATAL_ERROR"

\* status != PGRES_TUPLES_OK && status != PGRES_COMMAND_OK
StatusFailed(status) ==
    status # "PGRES_TUPLES_OK" /\ status # "PGRES_COMMAND_OK"

\* if (status != ...) { report; PQfinish(conn); return -1; }
CheckStatus ==
    /\ pc = "check_status"
    /\ IF StatusFailed(result.status)
       THEN /\ conns' = PQfinish(conns, conn)
            /\ Return(-1, <<"err_status", "err_message", "PQfinish">>)
       ELSE /\ pc' = "report"
            /\ UNCHANGED <<conns, rc, log>>
    /\ UNCHANGED <<mainVars, have_password, password, new_pass, conn,
                   encStatus, inputVars, execVars>>

\* the reporter warning about extra rows only, not about extra columns
ReportLinesRowsOnly(res) ==
    IF res.status = "PGRES_TUPLES_OK"
    THEN (IF res.ntuples > 1 THEN <<"warn_only_first">> ELSE <<>>)
         \o (IF res.ntuples > 0 /\ ~PQgetisnull(res)
             THEN <<"stdout_value">> ELSE <<>>)
    ELSE <<>>

\* the lines the reporter writes for a successful result
ReportLines(res) ==
    IF res.status = "PGRES_TUPLES_OK"
    THEN (IF res.ntuples > 1 \/ res.nfields > 1
          THEN <<"warn_only_first">> ELSE <<>>)
         \o (IF res.ntuples > 0 /\ ~PQgetisnull(res)
             THEN <<"stdout_value">> ELSE <<>>)
    ELSE <<>>

\* print result; PQclear(result); termPQExpBuffer(&data); PQfinish(conn);
\* return 0;
Report ==
    /\ pc = "report"
    /\ data' = [state |-> "freed", bytes |-> <<>>]
    /\ conns' = PQfinish(conns, conn)
    /\ Return(0, ReportLines(result) \o <<"PQclear", "PQfinish">>)
    /\ UNCHANGED <<mainVars, have_password, password, new_pass, conn,
                   encStatus, stream, fst, execVars>>

----------------------------------------------------------------------------

Next ==
    \/ \E what \in {"stdout_usage", "stdout_version"} : HelpOrVersion(what)
    \/ BeginOptions
    \/ \E o \in Options : GetoptCase(o)
    \/ \E dbGiven \in BOOLEAN : CheckArgs(dbGiven)
    \/ ForcedPrompt
    \/ Connect
    \/ CheckPassword
    \/ CheckConnection
    \/ SetEncoding
    \/ OpenInput
    \/ Fstat
    \/ InitBuffer
    \/ Fread
    \/ CheckRead
    \/ ExecParams
    \/ CheckStatus
    \/ Report
    \/ MainReturn

Spec == Init /\ [][Next]_vars

----------------------------------------------------------------------------
(* pgimportdoc() called more than once in one process *)

\* A caller (other than main(), which calls once) calls pgimportdoc() again
\* with the same arguments. The statics keep their values: have_password in
\* both builds, the password buffer in the PG_VERSION_NUM >= 100000 build
\* (static char password[100]); the other build declares
\* char *password = NULL, a local that starts as NULL in every call. The
\* other locals start afresh, and the history starts afresh with the call.
Reinvoke ==
    /\ pc = "returned"
    /\ reuse.again < MaxReuse
    /\ pc' = "entry"
    /\ reuse' = [again |-> reuse.again + 1,
                 hadPassword |-> have_password,
                 cached |-> IF have_password THEN password ELSE "NULL"]
    /\ password' = IF pg10 THEN password ELSE "NULL"
    /\ new_pass' = FALSE
    /\ conn' = 0
    /\ conns' = <<>>
    /\ encStatus' = "none"
    /\ stream' = [open |-> "none", content |-> <<>>, pos |-> 0,
                  ferr |-> FALSE, errors |-> 0, closed |-> 0]
    /\ fst' = [set |-> FALSE, ok |-> FALSE, isreg |-> FALSE, size |-> 0]
    /\ data' = [state |-> "uninit", bytes |-> <<>>]
    /\ call' = [nParams |-> 0, ptypes |-> <<>>, plengths |-> <<>>,
                pformats |-> <<>>, pvalues |-> <<>>]
    /\ result' = [status |-> "none", ntuples |-> 0, nfields |-> 0,
                  cell |-> "absent"]
    /\ log' = <<>>
    /\ UNCHANGED <<param, optsLeft, pg10, have_password, rc, exitCode>>

NextReuse == Next \/ Reinvoke

SpecReuse == Init /\ [][NextReuse]_vars

----------------------------------------------------------------------------
(* Properties *)

\* pgimportdoc() has returned (main may have exited after it)
Returned == Has(log, "return")

\* main() got past the argument checks and called pgimportdoc()
Called == pc \notin {"start", "getopt"} /\ (pc = "exited" => Returned)

\* the last connection attempt gave no usable connection
NoConnection == conn = 0 \/ conns[conn].status = "CONNECTION_BAD"

\* nothing of the stages after the Connector has happened
NothingAfterConnect ==
    /\ ~Has(log, "set_encoding")
    /\ ~Has(log, "fopen")
    /\ ~Has(log, "fread")
    /\ ~Has(log, "exec")

\* C1: no connection object is ever closed twice and no command is ever sent
\* on a closed one; when pgimportdoc() has returned, every connection object
\* it obtained (the last one included) has been closed exactly once, and the
\* current handle is the last object obtained.
Thm_C1_ConnectionClosedOnce ==
    /\ \A i \in DOMAIN conns : conns[i].finished <= 1 /\ conns[i].late = 0
    /\ conn # 0 => conn = Len(conns)
    /\ Returned => \A i \in DOMAIN conns : conns[i].finished = 1

\* a run that retried with a password, connected, and failed while reading
Wit_C1_ClosedAfterReadError ==
    /\ pc = "returned"
    /\ rc = -1
    /\ Len(conns) = 2
    /\ Has(log, "err_read")
    /\ conns[conn].finished = 1

\* the first connection object was bad and asked for a password
FirstNeedsPassword ==
    /\ Len(conns) >= 1
    /\ conns[1].status = "CONNECTION_BAD"
    /\ conns[1].needsPassword

\* C2: under the default policy the first attempt carries no password; there
\* are never more than two attempts or more than one prompt; a run whose
\* first attempt was answered with "password required" has prompted once and
\* made exactly one more attempt, carrying the typed password; any other run
\* made one attempt and no prompt; and a run whose second attempt failed
\* returned -1 with nothing of the later stages done.
Thm_C2_DefaultPolicyOneRetry ==
    (Called /\ param.pg_prompt = "TRI_DEFAULT") =>
        /\ Count(log, "connect") <= 2
        /\ Count(log, "prompt") <= 1
        /\ Len(conns) >= 1 => conns[1].password = "NULL"
        /\ Len(conns) >= 2 => conns[2].password \in Passwords
        /\ Returned =>
              IF FirstNeedsPassword
              THEN Count(log, "prompt") = 1 /\ Count(log, "connect") = 2
              ELSE Count(log, "prompt") = 0 /\ Count(log, "connect") = 1
        /\ (Returned /\ Count(log, "connect") = 2 /\ NoConnection) =>
              rc = -1 /\ NothingAfterConnect

\* the server asks for a password again on the second attempt: terminal
Wit_C2_SecondFailureTerminal ==
    /\ param.pg_prompt = "TRI_DEFAULT"
    /\ pc = "returned"
    /\ rc = -1
    /\ Len(conns) = 2
    /\ conns[2].status = "CONNECTION_BAD"
    /\ conns[2].needsPassword
    /\ Count(log, "prompt") = 1

\* C3: under -w no prompt is ever issued; a finished run made exactly one
\* connection attempt; and if that attempt gave a bad (or no) connection the
\* run returned -1 with no encoding command, no input read and no main
\* command.
Thm_C3_NeverPrompt ==
    (Called /\ param.pg_prompt = "TRI_NO") =>
        /\ Count(log, "prompt") = 0
        /\ Count(log, "connect") <= 1
        /\ Returned => Count(log, "connect") = 1
        /\ (Returned /\ NoConnection) => rc = -1 /\ NothingAfterConnect

\* -w and a server that requires a password
Wit_C3_PasswordRequiredNoPrompt ==
    /\ param.pg_prompt = "TRI_NO"
    /\ pc = "returned"
    /\ rc = -1
    /\ Len(conns) = 1
    /\ conns[1].status = "CONNECTION_BAD"
    /\ conns[1].needsPassword

\* C4 (as claimed): with -E and format XML or BYTEA the warning is written
\* and no SET client_encoding command is ever issued.
Cex_C4_EncodingIgnoredForBinary ==
    (Called /\ param.encoding /\ param.fmt # "FORMAT_TEXT") =>
        /\ Has(log, "warn_encoding")
        /\ ~Has(log, "set_encoding")
        /\ encStatus = "none"

\* C5: with -E and format TEXT the SET command precedes the opening and the
\* reading of the input and the main command, none of which happens without
\* it having completed; it is issued at most once; and when its status is
\* anything but PGRES_COMMAND_OK the run has returned -1 with no input read
\* and no main command.
Thm_C5_EncodingFirst ==
    (Called /\ param.encoding /\ param.fmt = "FORMAT_TEXT") =>
        /\ Count(log, "set_encoding") <= 1
        /\ Before(log, "set_encoding", "fopen")
        /\ Before(log, "set_encoding", "fread")
        /\ Before(log, "set_encoding", "exec")
        /\ (Has(log, "fread") \/ Has(log, "exec") \/ stream.open # "none") =>
              Has(log, "set_encoding") /\ encStatus = "PGRES_COMMAND_OK"
        /\ encStatus \notin {"none", "PGRES_COMMAND_OK"} =>
              /\ Returned /\ rc = -1
              /\ ~Has(log, "fread")
              /\ ~Has(log, "exec")
              /\ call.nParams = 0

\* the server rejects the encoding
Wit_C5_EncodingRejected ==
    /\ param.encoding
    /\ param.fmt = "FORMAT_TEXT"
    /\ encStatus = "PGRES_FATAL_ERROR"
    /\ pc = "returned"
    /\ rc = -1
    /\ conns[conn].commands = 1

\* fstat() succeeded on a named regular file
StatRegular == fst.set /\ fst.ok /\ fst.isreg

\* C6 (as claimed): a regular file of exactly 1 GiB or more ends the run with
\* the oversized-input error before any byte is read; one of 1 GiB - 1 bytes
\* does not raise that error.
Cex_C6_LimitInclusive ==
    StatRegular =>
        /\ fst.size >= MaxFileSize =>
              Has(log, "err_too_big") /\ ~Has(log, "fread")
        /\ fst.size = MaxFileSize - 1 => ~Has(log, "err_too_big")

\* C6 (amended): a regular file larger than 1 GiB ends the run with the
\* oversized-input error and -1 before any byte is read (and before the
\* buffer exists or the main command runs); a regular file of exactly 1 GiB,
\* of 1 GiB - 1 or less does not raise that error, and its run does not
\* return before a read has been made.
Thm_C6_LimitExclusive ==
    StatRegular =>
        /\ fst.size > MaxFileSize =>
              /\ Has(log, "err_too_big")
              /\ Returned /\ rc = -1
              /\ ~Has(log, "fread")
              /\ ~Has(log, "exec")
              /\ data.state = "uninit"
        /\ fst.size <= MaxFileSize =>
              /\ ~Has(log, "err_too_big")
              /\ Returned => Has(log, "fread")

\* a regular file of exactly 1 GiB is read
Wit_C6_ExactlyOneGiBIsRead ==
    /\ StatRegular
    /\ fst.size = MaxFileSize
    /\ Has(log, "fread")
    /\ pc = "exec"

\* the read loop has ended with no read error and no allocation failure
ReadCompleted ==
    /\ pc \in {"check_read", "exec", "check_status", "report"}
    /\ ~stream.ferr
    /\ data.state = "live"

\* C7: when the read loop has ended with no read error and no allocation
\* failure, the buffer holds the input byte for byte (so the lengths agree),
\* the whole input has been consumed, and the pipeline only goes on to the
\* main command in that case.
Thm_C7_BufferEqualsInput ==
    /\ ReadCompleted =>
          /\ data.bytes = stream.content
          /\ Len(data.bytes) = Len(stream.content)
          /\ stream.pos = Len(stream.content)
    /\ pc \in {"exec", "check_status", "report"} => ReadCompleted

\* an input of one full chunk and one more byte has been buffered
Wit_C7_ChunkPlusOne ==
    /\ pc = "exec"
    /\ Len(stream.content) = BUFSIZE + 1
    /\ data.bytes = stream.content
    /\ Count(log, "fread") = 3

\* C8: the PQexecParams call passes exactly one parameter whose value is the
\* document buffer; for XML the type is XMLOID, for BYTEA it is BYTEAOID, both
\* in binary format with the buffer length as declared length; for TEXT no
\* type, length or format array is passed (untyped, text format).
Thm_C8_BoundParameter ==
    call.nParams # 0 =>
        /\ call.nParams = 1
        /\ Len(call.pvalues) = 1
        /\ call.pvalues[1] = stream.content
        /\ data.state = "live" => call.pvalues[1] = data.bytes
        /\ param.fmt = "FORMAT_XML" =>
              /\ call.ptypes = <<"XMLOID">>
              /\ call.pformats = <<1>>
              /\ call.plengths = <<Len(stream.content)>>
        /\ param.fmt = "FORMAT_BYTEA" =>
              /\ call.ptypes = <<"BYTEAOID">>
              /\ call.pformats = <<1>>
              /\ call.plengths = <<Len(stream.content)>>
        /\ param.fmt = "FORMAT_TEXT" =>
              /\ call.ptypes = <<>>
              /\ call.pformats = <<>>
              /\ call.plengths = <<>>

\* an XML document of more than one chunk has been bound
Wit_C8_XmlBound ==
    /\ param.fmt = "FORMAT_XML"
    /\ call.nParams = 1
    /\ call.plengths = <<2 * BUFSIZE + 1>>
    /\ call.ptypes = <<"XMLOID">>

\* the main command was answered with a status that is no success
MainCommandFailed ==
    result.status \notin {"none", "PGRES_COMMAND_OK", "PGRES_TUPLES_OK"}

\* C9: a main command answered with a status other than PGRES_COMMAND_OK and
\* PGRES_TUPLES_OK is terminal: the reporter is never entered, no value is
\* written to stdout, and once the status has been checked the status name
\* and the error text have been written, the connection has been closed and
\* pgimportdoc() has returned -1.
Thm_C9_FailureStatusTerminal ==
    MainCommandFailed =>
        /\ pc \in {"check_status", "returned", "exited"}
        /\ ~Has(log, "stdout_value")
        /\ pc # "check_status" =>
              /\ Returned /\ rc = -1
              /\ Has(log, "err_status")
              /\ Has(log, "err_message")
              /\ conns[conn].finished = 1

\* an empty-query status ended the run
Wit_C9_EmptyQueryTerminal ==
    /\ result.status = "PGRES_EMPTY_QUERY"
    /\ pc = "returned"
    /\ rc = -1

\* C10: at most one value is ever written to stdout; in a run that returned
\* 0 a value was written exactly when the status is PGRES_TUPLES_OK, there is
\* at least one row and row 0, column 0 holds a non-null value, and the
\* warning was written exactly when the status is PGRES_TUPLES_OK and there
\* is more than one row or more than one column; a run whose main command
\* succeeded returns 0 whatever the shape; a run that did not return 0 wrote
\* no value.
Thm_C10_ResultReport ==
    /\ Count(log, "stdout_value") <= 1
    /\ Count(log, "warn_only_first") <= 1
    /\ (Returned /\ rc = 0) =>
          /\ Has(log, "stdout_value") <=>
                (/\ result.status = "PGRES_TUPLES_OK"
                 /\ result.ntuples > 0
                 /\ result.cell = "text")
          /\ Has(log, "warn_only_first") <=>
                (/\ result.status = "PGRES_TUPLES_OK"
                 /\ (result.ntuples > 1 \/ result.nfields > 1))
    /\ (Returned /\ result.status \in {"PGRES_COMMAND_OK", "PGRES_TUPLES_OK"})
          => rc = 0
    /\ (Returned /\ rc # 0) => ~Has(log, "stdout_value")
    /\ ~Returned => ~Has(log, "stdout_value") /\ ~Has(log, "warn_only_first")

\* one row of two columns: the warning and the value are both written
Wit_C10_WarningAndValue ==
    /\ pc = "returned"
    /\ rc = 0
    /\ result.ntuples = 1
    /\ result.nfields = 2
    /\ result.cell = "text"
    /\ Has(log, "warn_only_first")
    /\ Has(log, "stdout_value")

\* the connection is usable and the encoding command, if any, completed:
\* the Input Loader is entered
LoaderEntered ==
    /\ conn # 0
    /\ conns[conn].status = "CONNECTION_OK"
    /\ param.encoding => encStatus = "PGRES_COMMAND_OK"

\* the named file could not be opened
OpenFailed ==
    /\ Returned
    /\ LoaderEntered
    /\ ~param.use_stdin
    /\ stream.open = "none"

\* C11: every input error is terminal. When the named file could not be
\* opened, fstat() failed, a regular file is larger than the limit, a read
\* failed or the buffer could not be grown, the main command is never
\* executed, and once the error has been seen pgimportdoc() has returned -1
\* with the connection closed and the message of that error written; a
\* broken buffer without a read error is reported as "out of memory" and not
\* as a read error.
Thm_C11_InputErrorsTerminal ==
    /\ OpenFailed =>
          rc = -1 /\ Has(log, "err_open") /\ conns[conn].finished = 1
          /\ ~Has(log, "exec")
    /\ (fst.set /\ ~fst.ok) =>
          /\ Returned /\ rc = -1
          /\ Has(log, "err_fstat") /\ conns[conn].finished = 1
          /\ ~Has(log, "exec")
    /\ (fst.set /\ fst.ok /\ fst.isreg /\ fst.size > MaxFileSize) =>
          /\ Returned /\ rc = -1
          /\ Has(log, "err_too_big") /\ conns[conn].finished = 1
          /\ ~Has(log, "exec")
    /\ (stream.ferr \/ data.state = "broken") =>
          /\ pc \in {"read", "check_read", "returned", "exited"}
          /\ ~Has(log, "exec") /\ call.nParams = 0
          /\ pc \in {"returned", "exited"} =>
                /\ Returned /\ rc = -1
                /\ conns[conn].finished = 1
                /\ IF stream.ferr
                   THEN Has(log, "err_read")
                        /\ ~Has(log, "err_out_of_memory")
                   ELSE Has(log, "err_out_of_memory")
                        /\ ~Has(log, "err_read")

\* the second append could not grow the buffer; no read failed
Wit_C11_OutOfMemoryReported ==
    /\ pc = "returned"
    /\ rc = -1
    /\ data.state = "broken"
    /\ ~stream.ferr
    /\ Count(log, "fread") = 3
    /\ Has(log, "err_out_of_memory")

\* the messages of the configuration errors
ConfigMessages ==
    {"err_missing_command", "err_missing_database", "err_bad_type",
     "err_bad_port"}

\* the help text or the version was asked for and written
HelpShown == Has(log, "stdout_usage") \/ Has(log, "stdout_version")

\* main() ended the process itself over its arguments, without calling
\* pgimportdoc()
ConfigError == pc = "exited" /\ ~Returned /\ ~HelpShown

\* a configuration error has been reported
ConfigReported ==
    \/ \E m \in ConfigMessages : Has(log, m)
    \/ Has(log, "err_usage_hint")

\* C12 (as claimed): a run with a configuration error exits with code 1, with
\* the usage hint written and without any connection attempt.
Cex_C12_HintOnEveryConfigError ==
    ConfigReported =>
        /\ pc = "exited"
        /\ exitCode = 1
        /\ Has(log, "err_usage_hint")
        /\ ~Has(log, "connect")

\* C12 (amended): once a configuration error has been reported the process
\* has exited with code 1, pgimportdoc() was not called and no connection
\* attempt was ever made; the usage hint is written for a missing command, a
\* missing database name and an unknown option, and is not written for an
\* invalid -t keyword or an invalid -p port; and main() never ends the
\* process itself in any other way.
Thm_C12_ConfigErrorsBeforeConnect ==
    /\ ConfigReported =>
          /\ ConfigError
          /\ exitCode = 1
          /\ ~Has(log, "connect") /\ conns = <<>> /\ conn = 0
          /\ ~Has(log, "prompt")
          /\ Has(log, "err_usage_hint") <=>
                ~(Has(log, "err_bad_type") \/ Has(log, "err_bad_port"))
          /\ Has(log, "err_missing_database") => param.command
    /\ ConfigError => ConfigReported
    /\ HelpShown => pc = "exited" /\ ~ConfigReported /\ ~Has(log, "connect")

\* an invalid -p port after a valid -c: exit code 1 and no usage hint
Wit_C12_BadPortNoHint ==
    /\ ConfigError
    /\ param.command
    /\ Has(log, "err_bad_port")
    /\ ~Has(log, "err_usage_hint")
    /\ exitCode = 1

\* the run succeeded: connected, the encoding command (if any) completed,
\* the input was buffered in full and passed, and the main command was
\* answered with PGRES_COMMAND_OK or PGRES_TUPLES_OK
RunSucceeded ==
    /\ Returned
    /\ LoaderEntered
    /\ ~stream.ferr
    /\ call.nParams = 1
    /\ call.pvalues[1] = stream.content
    /\ result.status \in {"PGRES_COMMAND_OK", "PGRES_TUPLES_OK"}

\* C13 (as claimed): when the process has exited, its exit code is 0 exactly
\* when the run succeeded.
Cex_C13_ExitCodeZeroIffSuccess ==
    pc = "exited" => (exitCode = 0 <=> RunSucceeded)

\* C13 (amended): when the process has exited, its exit code is 0 exactly
\* when the run succeeded or only the help text or the version was asked
\* for; a configuration error, a failed connection, a rejected encoding
\* command, an input error and a failed main command all give a non-zero
\* code.
Thm_C13_ExitCodeZeroIffSuccessOrHelp ==
    pc = "exited" =>
        /\ exitCode = 0 <=> (RunSucceeded \/ HelpShown)
        /\ exitCode \in 0..255
        /\ (\/ ConfigError
            \/ (Returned /\ ~LoaderEntered)
            \/ OpenFailed
            \/ Has(log, "err_too_big")
            \/ Has(log, "err_fstat")
            \/ Has(log, "err_read")
            \/ Has(log, "err_out_of_memory")
            \/ MainCommandFailed) => exitCode # 0

\* a failed main command gives a non-zero exit code
Wit_C13_ExecutionFailureNonZero ==
    /\ pc = "exited"
    /\ result.status = "PGRES_FATAL_ERROR"
    /\ exitCode # 0

\* C14 (as claimed): with -w and a server that requires a password the run
\* ends with the connection error, one connection attempt and no prompt, and
\* the process exits with code 1.
Cex_C14_ExitCodeOne ==
    (/\ pc = "exited"
     /\ Returned
     /\ param.pg_prompt = "TRI_NO"
     /\ FirstNeedsPassword) =>
        /\ Has(log, "err_connection_failed")
        /\ Count(log, "connect") = 1
        /\ Count(log, "prompt") = 0
        /\ exitCode = 1

\* C15 (as claimed): in a later call of pgimportdoc() made after a password
\* had been obtained, no prompt is issued and every connection attempt
\* carries that same password, in both builds.
Cex_C15_PasswordCarriedOver ==
    (reuse.again > 0 /\ reuse.hadPassword) =>
        /\ ~Has(log, "prompt")
        /\ reuse.cached \in Passwords
        /\ \A i \in DOMAIN conns : conns[i].password = reuse.cached

\* the place in the history of the i-th connection attempt
ConnectIdx(i) ==
    CHOOSE k \in DOMAIN log :
        /\ log[k] = "connect"
        /\ Count(SubSeq(log, 1, k), "connect") = i

\* the i-th connection attempt was made after a prompt
AfterPrompt(i) ==
    \E p \in DOMAIN log : log[p] = "prompt" /\ p < ConnectIdx(i)

\* C16: under -W the prompt comes before the first connection attempt, which
\* already carries the typed password; under every policy at most one prompt
\* is ever issued (so the forced prompt and the retry prompt never both
\* occur), a password is held exactly when a prompt was issued, and every
\* connection attempt made after the prompt carries the password typed at
\* it, every attempt made before it none.
Thm_C16_PasswordObtainedOnce ==
    /\ Count(log, "prompt") <= 1
    /\ have_password <=> Has(log, "prompt")
    /\ IF have_password THEN password \in Passwords ELSE password = "NULL"
    /\ \A i \in DOMAIN conns :
          conns[i].password = IF AfterPrompt(i) THEN password ELSE "NULL"
    /\ (Called /\ param.pg_prompt = "TRI_YES") =>
          /\ pc # "entry" => Has(log, "prompt")
          /\ Before(log, "prompt", "connect")
          /\ \A i \in DOMAIN conns : conns[i].password \in Passwords

\* -W, and the server still answers "password required": no second prompt
Wit_C16_ForcedPromptNoRetryPrompt ==
    /\ param.pg_prompt = "TRI_YES"
    /\ pc = "returned"
    /\ Len(conns) = 1
    /\ conns[1].status = "CONNECTION_BAD"
    /\ conns[1].needsPassword
    /\ conns[1].password = "pw2"
    /\ Count(log, "prompt") = 1

\* C17 (as claimed): once initialised, the document buffer has been released
\* when pgimportdoc() has returned.
Cex_C17_BufferReleased ==
    (Returned /\ data.state # "uninit") => data.state = "freed"

\* the stage an event of the history belongs to (0: no stage of its own)
StageOf(e) ==
    CASE e \in {"connect", "prompt"}   -> 1
      [] e = "set_encoding"            -> 2
      [] e \in {"fopen", "fstat"}      -> 3
      [] e \in {"fread", "fclose"}     -> 4
      [] e = "exec"                    -> 5
      [] e \in {"warn_only_first", "stdout_value", "PQclear"} -> 6
      [] OTHER                         -> 0

\* C18: the stages happen in the order connect, encoding command, input open
\* and size check, read, bind and execute, report: among the events that
\* belong to a stage, none of an earlier stage follows one of a later stage;
\* only the connection attempt is ever repeated (the encoding command, the open, the size check, the close, the
\* main command and the report each happen at most once, the size check only
\* after the open); and the main command is executed only after the input
\* was read to its end with no read error, the value passed being the whole
\* input.
Thm_C18_StagesInOrder ==
    /\ LET staged == SelectSeq(log, LAMBDA e : StageOf(e) > 0)
       IN  \A i \in 1..(Len(staged) - 1) :
              StageOf(staged[i]) <= StageOf(staged[i + 1])
    /\ \A e \in {"set_encoding", "fopen", "fstat", "fclose", "exec",
                 "warn_only_first", "stdout_value", "PQclear"} :
          Count(log, e) <= 1
    /\ Before(log, "fopen", "fstat")
    /\ Has(log, "fstat") => Has(log, "fopen")
    /\ Count(log, "exec") = call.nParams
    /\ Has(log, "exec") =>
          /\ Has(log, "connect")
          /\ Has(log, "fread")
          /\ Has(log, "fclose")
          /\ ~stream.ferr
          /\ stream.pos = Len(stream.content)
          /\ call.pvalues[1] = stream.content
    /\ Has(log, "PQclear") => Has(log, "exec")

\* a named file, an encoding command and a result value: every stage ran
Wit_C18_AllStages ==
    /\ pc = "returned"
    /\ rc = 0
    /\ Count(log, "connect") = 2
    /\ Has(log, "set_encoding")
    /\ Has(log, "fstat")
    /\ Count(log, "fread") = 3
    /\ Has(log, "stdout_value")

\* C19: for TEXT the value the main command receives is the input up to but
\* not including its first zero byte (a prefix of the input holding no zero
\* byte, followed in the input by a zero byte unless it is the whole input),
\* so it is the whole input exactly when the input holds no zero byte; for
\* XML and BYTEA the value received is the whole input of the declared length,
\* zero bytes included.
Thm_C19_TextStopsAtZero ==
    call.nParams # 0 =>
        LET v  == PQexecParamsValue(call)
            in == stream.content
        IN  /\ param.fmt = "FORMAT_TEXT" =>
                  /\ Len(v) <= Len(in)
                  /\ \A i \in 1..Len(v) : v[i] = in[i] /\ v[i] # 0
                  /\ Len(v) < Len(in) => in[Len(v) + 1] = 0
                  /\ (v = in) <=> (\A i \in 1..Len(in) : in[i] # 0)
            /\ param.fmt \in {"FORMAT_XML", "FORMAT_BYTEA"} =>
                  /\ v = in
                  /\ call.plengths = <<Len(in)>>

\* a TEXT document with a zero byte in the middle is cut at that byte
Wit_C19_TextCutAtZero ==
    /\ pc = "returned"
    /\ param.fmt = "FORMAT_TEXT"
    /\ stream.content = <<65, 0>>
    /\ call.nParams = 1
    /\ PQexecParamsValue(call) = <<65>>

\* C20 (as claimed): a named input file that was opened has been closed
\* exactly once when pgimportdoc() has returned.
Cex_C20_FileClosedOnce ==
    (Returned /\ stream.open = "file") => stream.closed = 1

============================================================================
